---------------------------- MODULE Spec2Model ----------------------------
(***************************************************************************)
(* A model of package brauser (src/brauser.go) and of the earlier version  *)
(* of the same file kept as src/unnamed/part_000: a preconfigured HTTP     *)
(* client with a cookie jar, a retry loop around http.Client.Do, and       *)
(* export / import of the jar's cookies through a JSON file.               *)
(*                                                                         *)
(* The Go standard library (net/url, net/http, net/http/cookiejar,         *)
(* encoding/json, io/ioutil) is the environment: its functions are         *)
(* modelled by what they do on the small universe of inputs below.         *)
(***************************************************************************)
EXTENDS Integers, Sequences, FiniteSets

\* ------------------------------------------------------------- bounds
\* The largest Options.Tries a caller configures (the smallest is -1).
MaxTries == 2

\* -------------------------------------------------- program constants
DefaultTimeout == 60
DefaultTlsHandshakeTimeout == 5
DefaultDialTimeout == 5
DefaultTries == 1

\* ------------------------------------------------------------ universe
Nil == "nil"

\* The two versions of fetch in the source.
Current == "brauser.go"
Old == "part_000"

Calls == {"c1", "c2"}
\* Beside each caller runs its twin: the same calls, with the same outcomes, on
\* a client whose options differ in Verbose alone.
TwinOf(c) == IF c = "c1" THEN "t1" ELSE "t2"
Twins == {TwinOf(c) : c \in Calls}

\* Errors of the transport (http.Client.Do) and of draining a body.
TransportErrors == {"dial tcp: connection refused", "net/http: timeout"}
ReadErr == "unexpected EOF"


\* Strings that are taken apart (paths) are sequences of characters.
NoPath == <<>>
Root == <<"/">>

NilBytes == [isNil |-> TRUE, b |-> <<>>]
Bytes(b) == [isNil |-> FALSE, b |-> b]

\* -------------------------------------------------------------- net/url
\* The sites cookies are exported and imported for.
Sites == {"http://h/", "http://h/a/b", ":bad"}

Parse(s) ==
  CASE s = "http://h/"    -> [err |-> Nil, Scheme |-> "http", Host |-> "h", Path |-> <<"/">>]
    [] s = "http://h/a/b" -> [err |-> Nil, Scheme |-> "http", Host |-> "h", Path |-> <<"/", "a", "/", "b">>]
    [] OTHER              -> [err |-> "missing protocol scheme", Scheme |-> "", Host |-> "", Path |-> <<>>]

\* ------------------------------------------------------------- net/http
validMethod(m) == m \in {"GET", "POST"}

\* The header keys callers pass, as character sequences; the values are strings.
KeyLower == <<"x", "-", "a">>
KeyUpper == <<"X", "-", "A">>
NoParams == {}
\* A params map, as its set of <<key, value>> entries: one header, spelled twice.
TwoSpellings == {<<KeyLower, "1">>, <<KeyUpper, "2">>}

ToUpper(ch) == CASE ch = "x" -> "X" [] ch = "a" -> "A" [] OTHER -> ch
ToLower(ch) == CASE ch = "X" -> "x" [] ch = "A" -> "a" [] OTHER -> ch

\* textproto.CanonicalMIMEHeaderKey: the first letter and every letter after a
\* "-" in upper case, the others in lower case.
RECURSIVE Canonical(_, _)
Canonical(key, upper) ==
  IF key = <<>> THEN <<>>
  ELSE <<IF upper THEN ToUpper(Head(key)) ELSE ToLower(Head(key))>>
       \o Canonical(Tail(key), Head(key) = "-")

CanonicalKey(key) == Canonical(key, TRUE)

\* An http.Header: for each canonical key its values, none when it is absent.
HeaderKeys == {CanonicalKey(k) : k \in {KeyLower, KeyUpper}}
NoHeader == [k \in HeaderKeys |-> <<>>]

\* Header.Set in place of Header.Add: the value replaces those there.
HeaderSet(h, key, value) == [h EXCEPT ![CanonicalKey(key)] = <<value>>]

\* Header.Add: the value is appended to those of the canonical key.
HeaderAdd(h, key, value) == [h EXCEPT ![CanonicalKey(key)] = Append(@, value)]

\* A request: the Cookie header is kept apart, as the list of its name=value pairs.
NoReq == [Method |-> "", URL |-> "", Header |-> NoHeader, Cookie |-> <<>>]
NoResp == [StatusCode |-> 0, Body |-> <<>>, SetCookie |-> <<>>]

\* http.NewRequest: the method is validated, then the URL parsed.
NewRequest(method, url) ==
  IF ~validMethod(method)
    THEN [err |-> "net/http: invalid method", req |-> NoReq]
    ELSE IF Parse(url).err # Nil
      THEN [err |-> Parse(url).err, req |-> NoReq]
      ELSE [err |-> Nil, req |-> [NoReq EXCEPT !.Method = method, !.URL = url]]

\* An http.Cookie as this program sees it: Path "" (NoPath) is the zero value.
Cookie(n, v, p) == [Name |-> n, Value |-> v, Path |-> p]

\* --------------------------------------------------- net/http/cookiejar
\* A jar is the sequence of its entries in creation order (seqNum order).
HasPrefix(s, p) == Len(p) <= Len(s) /\ SubSeq(s, 1, Len(p)) = p

\* strings.LastIndex(s, "/"), counted from 0; -1 when there is none.
LastSlash(s) ==
  IF \E i \in 1..Len(s) : s[i] = "/"
    THEN (CHOOSE i \in 1..Len(s) : s[i] = "/" /\ \A k \in (i + 1)..Len(s) : s[k] # "/") - 1
    ELSE -1

\* cookiejar.defaultPath: the request path up to, not including, its last "/".
defaultPath(path) ==
  IF Len(path) = 0 \/ path[1] # "/" THEN Root
  ELSE IF LastSlash(path) = 0 THEN Root
  ELSE SubSeq(path, 1, LastSlash(path))

\* entry.pathMatch
pathMatch(e, requestPath) ==
  \/ requestPath = e.Path
  \/ /\ HasPrefix(requestPath, e.Path)
     /\ \/ e.Path[Len(e.Path)] = "/"
        \/ requestPath[Len(e.Path) + 1] = "/"

\* entry.shouldSend, for the host-only, non-secure, session entries modelled.
shouldSend(e, u) ==
  e.Domain = u.Host /\ pathMatch(e, IF u.Path = <<>> THEN Root ELSE u.Path)

\* Jar.newEntry: a cookie without a Path attribute gets the default path.
newEntry(c, u) ==
  [Name |-> c.Name, Value |-> c.Value, Domain |-> u.Host,
   Path |-> IF c.Path = <<>> \/ c.Path[1] # "/" THEN defaultPath(u.Path) ELSE c.Path]

SameID(e, f) == e.Domain = f.Domain /\ e.Path = f.Path /\ e.Name = f.Name

\* One cookie stored: an entry with the same id keeps its place (Creation and
\* seqNum are kept) and takes the new value; another id is appended.
StoreEntry(j, e) ==
  IF \E i \in 1..Len(j) : SameID(j[i], e)
    THEN [i \in 1..Len(j) |-> IF SameID(j[i], e) THEN e ELSE j[i]]
    ELSE Append(j, e)

RECURSIVE StoreAll(_, _, _)
StoreAll(j, u, cookies) ==
  IF cookies = <<>> THEN j
  ELSE StoreAll(StoreEntry(j, newEntry(Head(cookies), u)), u, Tail(cookies))

\* Jar.SetCookies
JarSetCookies(j, u, cookies) ==
  IF u.Scheme \notin {"http", "https"} THEN j ELSE StoreAll(j, u, cookies)

MaxLen(s) ==
  IF s = <<>> THEN 0
  ELSE CHOOSE m \in {Len(s[i].Path) : i \in 1..Len(s)} :
         \A i \in 1..Len(s) : Len(s[i].Path) <= m

\* Longer paths first, then by creation.
RECURSIVE SortEntries(_)
SortEntries(s) ==
  IF s = <<>> THEN <<>>
  ELSE SelectSeq(s, LAMBDA e : Len(e.Path) = MaxLen(s))
       \o SortEntries(SelectSeq(s, LAMBDA e : Len(e.Path) # MaxLen(s)))

\* Jar.Cookies: the entries to send to u, each as a cookie with only its Name
\* and Value set.
JarCookies(j, u) ==
  IF u.Scheme \notin {"http", "https"} THEN <<>>
  ELSE LET sel == SortEntries(SelectSeq(j, LAMBDA e : shouldSend(e, u)))
       IN [i \in 1..Len(sel) |-> Cookie(sel[i].Name, sel[i].Value, NoPath)]

\* -------------------------------------------------------- encoding/json
\* A file's content: no file, text that is not JSON, the JSON null, or a JSON
\* array whose elements are cookie objects or a value of another type.
NoFile == [kind |-> "none", elems |-> <<>>]
Garbage == [kind |-> "garbage", elems |-> <<>>]
JsonNull == [kind |-> "null", elems |-> <<>>]
JsonArray(elems) == [kind |-> "array", elems |-> elems]
JsonObject(c) == [type |-> "object", obj |-> c]
BadElem == [type |-> "number", obj |-> Cookie("", "", NoPath)]

\* json.Marshal of a []*http.Cookie: a nil slice is null.
Marshal(cookies) ==
  IF cookies = <<>> THEN [err |-> Nil, data |-> JsonNull]
  ELSE [err |-> Nil, data |-> JsonArray([i \in 1..Len(cookies) |-> JsonObject(cookies[i])])]

\* The zero http.Cookie: what the decoder allocates for an element before it
\* finds that the element is no object.
ZeroCookie == Cookie("", "", NoPath)

\* json.Unmarshal into a []*http.Cookie: invalid text decodes nothing; every
\* element of an array gets its place in the slice, one of the wrong type as a
\* zero cookie, and the first such element is reported once the rest is decoded.
Unmarshal(d) ==
  CASE d.kind = "null"    -> [err |-> Nil, cookies |-> <<>>]
    [] d.kind = "array"   ->
         [err |-> IF \E i \in 1..Len(d.elems) : d.elems[i].type # "object"
                    THEN "json: cannot unmarshal number into Go value of type http.Cookie"
                    ELSE Nil,
          cookies |-> [i \in 1..Len(d.elems) |->
                         IF d.elems[i].type = "object" THEN d.elems[i].obj ELSE ZeroCookie]]
    [] OTHER              -> [err |-> "invalid character", cookies |-> <<>>]

\* ------------------------------------------------------------ io/ioutil
Files == {"jar.json", "/ro/jar.json"}
Writable == {"jar.json"}

WriteFile(fs, file, data) ==
  IF file \in Writable
    THEN [err |-> Nil, fs |-> [fs EXCEPT ![file] = data]]
    ELSE [err |-> "permission denied", fs |-> fs]

ReadFile(fs, file) ==
  IF fs[file] = NoFile
    THEN [err |-> "no such file or directory", data |-> NoFile]
    ELSE [err |-> Nil, data |-> fs[file]]

\* ---------------------------------------------------------------- state
VARIABLES
  opts,      \* the argument list CreateWebClient was called with
  build,     \* which version of fetch is compiled in
  callers,   \* the goroutines that call into the client
  options,   \* the client's options
  jar,       \* the client's cl.Jar
  files,     \* the file system
  call       \* each caller's current or last call: its locals, and what it did

vars == <<opts, build, callers, options, jar, files, call>>

\* ------------------------------------------------------- CreateWebClient
DefaultOptions ==
  [Timeout |-> DefaultTimeout, TlsHandshakeTimeout |-> DefaultTlsHandshakeTimeout,
   DialTimeout |-> DefaultDialTimeout, Tries |-> DefaultTries, Verbose |-> FALSE]

UserOptions ==
  [Timeout : {2}, TlsHandshakeTimeout : {3}, DialTimeout : {4},
   Tries : {-1, 0, MaxTries}, Verbose : {TRUE}]

\* CreateWebClient taking the defaults whatever it is given.
CreateWebClientDefaultsOnly(args) ==
  [jar |-> <<>>, options |-> DefaultOptions]

\* CreateWebClient(opts ...Options): the argument list is a sequence.
CreateWebClient(args) ==
  [jar |-> <<>>, options |-> IF Len(args) # 1 THEN DefaultOptions ELSE args[1]]

OptionLists ==
  {<<>>} \cup {<<o>> : o \in UserOptions}
  \cup {<<o, o>> : o \in {x \in UserOptions : x.Tries = 0 /\ x.Verbose}}

\* A caller that has made no call. op is the operation called, pc the place in
\* it; data and err are what it returned. For a fetch: req, tryCount and resp
\* are its locals, open the responses whose body is not closed, deferred the
\* closes registered, events the dispatches and sleeps made, log the lines
\* printed. For ExportCookies and ImportCookies: file and site are the
\* arguments, cookies the cookies exported, tick tells one call from the next.
\* w is the options of the client the call is made on (the receiver); method,
\* url and params are the arguments of fetch.
IdleCall ==
  [op |-> "none", pc |-> "idle", w |-> DefaultOptions,
   method |-> "", url |-> "", params |-> NoParams, req |-> NoReq, tryCount |-> 0, resp |-> NoResp,
   open |-> {}, deferred |-> <<>>, data |-> NilBytes, err |-> Nil,
   events |-> <<>>, log |-> <<>>, nilDeref |-> FALSE,
   file |-> "", site |-> "", cookies |-> <<>>, tick |-> FALSE]

InitFiles ==
  {[f \in Files |-> IF f = "jar.json" THEN x
                    ELSE JsonArray(<<JsonObject(Cookie("c", "1", NoPath)), BadElem>>)]
     : x \in {NoFile, Garbage}}

InitWith(builds, cs, lists) ==
  /\ build \in builds
  /\ callers = cs
  /\ opts \in lists
  /\ options = CreateWebClient(opts).options
  /\ jar = CreateWebClient(opts).jar
  /\ files \in InitFiles
  /\ call = [c \in Calls \cup Twins |-> IdleCall]

Init == InitWith({Current}, {"c1"}, OptionLists)

AtRest(c) == call[c].pc \in {"idle", "returned"}

\* The program replaces its client by a new one made with the same options.
Recreate ==
  /\ \A c \in callers : AtRest(c)
  /\ jar # <<>>
  /\ jar' = CreateWebClient(<<options>>).jar
  /\ UNCHANGED <<opts, build, callers, options, files, call>>

\* ---------------------------------------------------------------- fetch
\* A printed line: its text, and the number and the string it shows.
Line(what, n, s) == [what |-> what, n |-> n, s |-> s]

\* logFetch: prints only when Verbose.
logFetchAlways(st, s) == Append(st.log, s)

\* logFetch: a line is printed only by a verbose client.
logFetch(st, s) == IF st.w.Verbose THEN Append(st.log, s) ELSE st.log

\* What a call did: a dispatch (with the error it got) or a sleep (with its
\* length). sent is the request as a dispatch put it on the wire.
Event(t, err, d) == [t |-> t, err |-> err, d |-> d, sent |-> NoReq]

Dispatches(ev) == SelectSeq(ev, LAMBDA e : e.t = "do")
Sleeps(ev) == SelectSeq(ev, LAMBDA e : e.t = "sleep")
Failures(ev) == SelectSeq(ev, LAMBDA e : e.t = "do" /\ e.err # Nil)

\* The deferred closes run, last registered first.
RunDeferred(st) ==
  [st EXCEPT !.open = st.open \ {st.deferred[i] : i \in 1..Len(st.deferred)},
             !.deferred = <<>>]

\* A return from fetch, with the values of its results data and err.
ReturnFrom(st, data, err) ==
  [RunDeferred(st) EXCEPT !.pc = "returned", !.data = data, !.err = err]

\* The orders in which a range over a map may visit its entries.
Orders(entries) ==
  {o \in [1..Cardinality(entries) -> entries] :
     \A i, k \in 1..Cardinality(entries) : o[i] = o[k] => i = k}

\* for k, p := range params { req.Header.Add(k, p) }
RECURSIVE AddHeaders(_, _)
AddHeaders(h, order) ==
  IF order = <<>> THEN h
  ELSE AddHeaders(HeaderAdd(h, Head(order)[1], Head(order)[2]), Tail(order))

\* The client with the other setting of Verbose.
OtherVerbose(w) == [w EXCEPT !.Verbose = ~@]

\* A call of fetch with its arguments, nothing done yet.
Called(w, method, url, params) ==
  [IdleCall EXCEPT !.op = "fetch", !.w = w, !.method = method, !.url = url,
                   !.params = params]

\* Begin going on to the dispatch whether or not the request could be built.
BeginUnchecked(w, method, url, params, order) ==
  LET r == NewRequest(method, url)
      st == Called(w, method, url, params)
  IN [st EXCEPT !.pc = "do", !.req = [r.req EXCEPT !.Header = AddHeaders(@, order)],
                !.log = logFetch(st, Line(method, 0, url))]

\* fetch up to the retry label: the request is built, given its headers, and
\* logged; if it cannot be built the call returns.
Begin(w, method, url, params, order) ==
  LET r == NewRequest(method, url)
      st == Called(w, method, url, params)
  IN IF r.err # Nil
       THEN ReturnFrom(st, st.data, r.err)
       ELSE [st EXCEPT !.pc = "do", !.req = [r.req EXCEPT !.Header = AddHeaders(@, order)],
                       !.log = logFetch(st, Line(method, 0, url))]

FetchBegin(c, method, url, params) ==
  /\ c \in callers
  /\ AtRest(c)
  /\ \E order \in Orders(params) :
       call' = [call EXCEPT ![c] = Begin(options, method, url, params, order),
                            ![TwinOf(c)] = Begin(OtherVerbose(options), method, url, params, order)]
  /\ UNCHANGED <<opts, build, callers, options, jar, files>>

Get(c, path, params) == FetchBegin(c, "GET", path, params)
Post(c, path, params) == FetchBegin(c, "POST", path, params)
CustomRequest(c, method, path, params) == FetchBegin(c, method, path, params)

\* OnCallFailure with the test tryCount <= Tries: one retry too many.
OnCallFailureOffByOne(st, e) ==
  IF st.tryCount <= st.w.Tries
    THEN [st EXCEPT !.pc = "sleep", !.err = e,
                    !.log = logFetch(st, Line("retry after", st.w.Timeout, e))]
    ELSE ReturnFrom([st EXCEPT !.log = logFetch(st, Line("aborting fetch", 0, ""))],
                    st.data, e)

\* OnCallFailure keeping the first error of the call instead of the latest.
OnCallFailureFirstError(st, e) ==
  LET first == IF st.err # Nil THEN st.err ELSE e IN
  IF st.tryCount < st.w.Tries
    THEN [st EXCEPT !.pc = "sleep", !.err = first,
                    !.log = logFetch(st, Line("retry after", st.w.Timeout, e))]
    ELSE ReturnFrom([st EXCEPT !.log = logFetch(st, Line("aborting fetch", 0, ""))],
                    st.data, first)

\* The branch taken on a failed dispatch: a retry after a sleep, or the return.
OnCallFailure(st, e) ==
  IF st.tryCount < st.w.Tries
    THEN [st EXCEPT !.pc = "sleep", !.err = e,
                    !.log = logFetch(st, Line("retry after", st.w.Timeout, e))]
    ELSE ReturnFrom([st EXCEPT !.log = logFetch(st, Line("aborting fetch", 0, ""))],
                    st.data, e)

\* OnResponse without the deferred close.
OnResponseNoDefer(st, id, r) ==
  [st EXCEPT !.pc = "read", !.err = Nil, !.resp = r,
             !.log = logFetch(st, Line("status", r.StatusCode, ""))]

\* OnResponse treating a server error as a failed dispatch, to be retried.
OnResponseRetryServerError(st, id, r) ==
  IF r.StatusCode >= 500
    THEN OnCallFailure(st, "server error")
    ELSE [st EXCEPT !.pc = "read", !.err = Nil, !.resp = r,
                    !.deferred = <<id>> \o st.deferred,
                    !.log = logFetch(st, Line("status", r.StatusCode, ""))]

\* After a dispatch that answered: the close is deferred and the status logged.
OnResponse(st, id, r) ==
  [st EXCEPT !.pc = "read", !.err = Nil, !.resp = r,
             !.deferred = <<id>> \o st.deferred,
             !.log = logFetch(st, Line("status", r.StatusCode, ""))]

\* A client without a jar: the request goes out as it is.
AttachNothing(req, j) == req

\* http.Client.send: each cookie the jar holds for the URL is added to the
\* Cookie header of the request it is given, which is the caller's request.
AttachCookies(req, j) == [req EXCEPT !.Cookie = @ \o JarCookies(j, Parse(req.URL))]

\* The dispatch recorded, with the request as sent; the n-th response, when
\* there is one, is open. j is the jar of the client.
Dispatched(st, j, e) ==
  LET req == AttachCookies(st.req, j) IN
  [st EXCEPT !.req = req,
             !.events = Append(@, [Event("do", e, 0) EXCEPT !.sent = req]),
             !.open = IF e = Nil THEN @ \cup {Len(Dispatches(st.events)) + 1} ELSE @]

\* The Set-Cookie headers a response may carry.
SetCookieLists ==
  {<<>>, <<Cookie("c", "1", NoPath)>>, <<Cookie("c", "2", Root)>>}

\* The responses a server may give: a page that may set a cookie, or an error
\* page with an empty body.
Responses ==
  {[StatusCode |-> 200, Body |-> <<7>>, SetCookie |-> sc] : sc \in SetCookieLists}
  \cup {[StatusCode |-> 500, Body |-> <<>>, SetCookie |-> <<>>]}

\* w.cl.Do(req) failing with one of errs, and the branch taken on its error.
Failing(c, errs) ==
  /\ c \in callers /\ build = Current /\ call[c].pc = "do"
  /\ \E e \in errs :
       call' = [call EXCEPT ![c] = OnCallFailure(Dispatched(@, jar, e), e),
                            ![TwinOf(c)] = OnCallFailure(Dispatched(@, jar, e), e)]
  /\ UNCHANGED <<opts, build, callers, options, jar, files>>

DoFail(c) == Failing(c, TransportErrors)

\* w.cl.Do(req) answering with one of rs: the client stores the response's
\* cookies in the jar.
Answering(c, rs) ==
  /\ c \in callers /\ build = Current /\ call[c].pc = "do"
  /\ \E r \in rs :
       /\ call' = [call EXCEPT
            ![c] = OnResponse(Dispatched(@, jar, Nil), Len(Dispatches(@.events)) + 1, r),
            ![TwinOf(c)] = OnResponse(Dispatched(@, jar, Nil), Len(Dispatches(@.events)) + 1, r)]
       /\ jar' = JarSetCookies(jar, Parse(call[c].req.URL), r.SetCookie)
  /\ UNCHANGED <<opts, build, callers, options, files>>

DoOK(c) == Answering(c, Responses)

\* Sleep using the client's Tries as the count of retries left.
SleepCountdown(c) ==
  /\ c \in callers /\ call[c].pc = "sleep"
  /\ call' = [call EXCEPT ![c] =
       [@ EXCEPT !.pc = "do", !.tryCount = @ + 1,
                 !.events = Append(@, Event("sleep", Nil, options.Timeout))]]
  /\ options' = [options EXCEPT !.Tries = @ - 1]
  /\ UNCHANGED <<opts, build, callers, jar, files>>

\* A retry delay taken from the wrong option.
SleepDurationDial(st) == st.w.DialTimeout

\* The argument of time.Sleep.
SleepDuration(st) == st.w.Timeout

\* A sleep that does not end: the call stays where it is.
SleptOn(st) == st

\* The sleep done and counted.
Slept(st) ==
  [st EXCEPT !.pc = "do", !.tryCount = @ + 1,
             !.events = Append(@, Event("sleep", Nil, SleepDuration(st)))]

\* Sleep counting the retry in every call that is in fetch: one counter for all.
SleepSharedCounter(c) ==
  /\ c \in callers /\ call[c].pc = "sleep"
  /\ call' = [x \in DOMAIN call |->
       IF x \in {c, TwinOf(c)} THEN Slept(call[x])
       ELSE IF call[x].op = "fetch" /\ call[x].pc \in {"do", "sleep"}
         THEN [call[x] EXCEPT !.tryCount = @ + 1]
         ELSE call[x]]
  /\ UNCHANGED <<opts, build, callers, options, jar, files>>

\* time.Sleep(w.options.Timeout); tryCount++; goto retry
Sleep(c) ==
  /\ c \in callers /\ call[c].pc = "sleep"
  /\ call' = [call EXCEPT ![c] = Slept(@), ![TwinOf(c)] = Slept(@)]
  /\ UNCHANGED <<opts, build, callers, options, jar, files>>

\* The read recorded: its error, and the number of bytes it got.
ReadDone(st, ok, n) == [st EXCEPT !.events = Append(@, Event("read", IF ok THEN Nil ELSE ReadErr, n))]

\* ReadResult returning what was read before the body was drained.
ReadResultTruncated(st, ok, n) ==
  IF ok THEN ReturnFrom(ReadDone(st, ok, n), Bytes(SubSeq(st.resp.Body, 1, n - 1)), Nil)
        ELSE ReturnFrom(ReadDone(st, ok, n), Bytes(SubSeq(st.resp.Body, 1, n)), ReadErr)

\* ReadResult treating a read error like a failed dispatch: it retries.
ReadResultRetry(st, ok, n) ==
  IF ok THEN ReturnFrom(ReadDone(st, ok, n), Bytes(st.resp.Body), Nil)
        ELSE OnCallFailure(ReadDone(st, ok, n), ReadErr)

\* ioutil.ReadAll(resp.Body) and the return: on an error the bytes read so far
\* are returned with it.
ReadResult(st, ok, n) ==
  IF ok THEN ReturnFrom(ReadDone(st, ok, n), Bytes(st.resp.Body), Nil)
        ELSE ReturnFrom(ReadDone(st, ok, n), Bytes(SubSeq(st.resp.Body, 1, n)), ReadErr)

ReadBody(c) ==
  /\ c \in callers /\ call[c].pc = "read"
  /\ \E ok \in BOOLEAN, n \in 0..Len(call[c].resp.Body) :
       /\ ok => n = Len(call[c].resp.Body)
       /\ call' = [call EXCEPT ![c] = ReadResult(@, ok, n),
                               ![TwinOf(c)] = ReadResult(@, ok, n)]
  /\ UNCHANGED <<opts, build, callers, options, jar, files>>

\* ------------------------------------------------- fetch of part_000
\* defer resp.Body.Close() and logFetch(resp.StatusCode) come before the error
\* is looked at: with no response, resp.Body is a nil pointer dereference and
\* the call panics.
OldDoFail(c) ==
  /\ c \in callers /\ build = Old /\ call[c].pc = "do"
  /\ \E e \in TransportErrors :
       call' = [call EXCEPT
         ![c] = [RunDeferred(Dispatched(@, jar, e)) EXCEPT !.pc = "panic", !.err = e, !.nilDeref = TRUE],
         ![TwinOf(c)] = [RunDeferred(Dispatched(@, jar, e)) EXCEPT !.pc = "panic", !.err = e, !.nilDeref = TRUE]]
  /\ UNCHANGED <<opts, build, callers, options, jar, files>>

OldDoOK(c) ==
  /\ c \in callers /\ build = Old /\ call[c].pc = "do"
  /\ \E r \in Responses :
       /\ call' = [call EXCEPT
            ![c] = OnResponse(Dispatched(@, jar, Nil), Len(Dispatches(@.events)) + 1, r),
            ![TwinOf(c)] = OnResponse(Dispatched(@, jar, Nil), Len(Dispatches(@.events)) + 1, r)]
       /\ jar' = JarSetCookies(jar, Parse(call[c].req.URL), r.SetCookie)
  /\ UNCHANGED <<opts, build, callers, options, files>>

\* ------------------------------------------ ExportCookies, ImportCookies
CookieCall(st, op, file, site, err, cookies) ==
  [IdleCall EXCEPT !.op = op, !.pc = "returned", !.file = file, !.site = site,
                   !.err = err, !.cookies = cookies, !.tick = ~st.tick]

\* ExportCookies dropping the error of the write.
ExportResultIgnoreWrite(j, fs, file, site) ==
  LET u == Parse(site)
      cs == JarCookies(j, u)
      m == Marshal(cs)
      w == WriteFile(fs, file, m.data)
  IN IF u.err # Nil THEN [err |-> u.err, cookies |-> <<>>, fs |-> fs]
     ELSE IF m.err # Nil THEN [err |-> m.err, cookies |-> cs, fs |-> fs]
     ELSE [err |-> Nil, cookies |-> cs, fs |-> w.fs]

\* ExportCookies as a function of the jar and the file system: the error
\* returned, the cookies read from the jar, and the file system left.
ExportResult(j, fs, file, site) ==
  LET u == Parse(site)
      cs == JarCookies(j, u)
      m == Marshal(cs)
      w == WriteFile(fs, file, m.data)
  IN IF u.err # Nil THEN [err |-> u.err, cookies |-> <<>>, fs |-> fs]
     ELSE IF m.err # Nil THEN [err |-> m.err, cookies |-> cs, fs |-> fs]
     ELSE IF w.err # Nil THEN [err |-> w.err, cookies |-> cs, fs |-> fs]
     ELSE [err |-> Nil, cookies |-> cs, fs |-> w.fs]

ExportCookies(c, file, site) ==
  /\ c \in callers
  /\ AtRest(c)
  /\ LET r == ExportResult(jar, files, file, site) IN
       /\ files' = r.fs
       /\ call' = [call EXCEPT ![c] = CookieCall(@, "export", file, site, r.err, r.cookies),
                               ![TwinOf(c)] = CookieCall(@, "export", file, site, r.err, r.cookies)]
  /\ UNCHANGED <<opts, build, callers, options, jar>>

\* ImportCookies installing what was decoded before looking at the decoder's error.
ImportResultEager(j, fs, file, site) ==
  LET u == Parse(site)
      d == ReadFile(fs, file)
      x == Unmarshal(d.data)
  IN IF u.err # Nil THEN [err |-> u.err, jar |-> j]
     ELSE IF d.err # Nil THEN [err |-> d.err, jar |-> j]
     ELSE [err |-> x.err, jar |-> JarSetCookies(j, u, x.cookies)]

\* ImportCookies as a function of the jar and the file system: the error
\* returned and the jar left.
ImportResult(j, fs, file, site) ==
  LET u == Parse(site)
      d == ReadFile(fs, file)
      x == Unmarshal(d.data)
  IN IF u.err # Nil THEN [err |-> u.err, jar |-> j]
     ELSE IF d.err # Nil THEN [err |-> d.err, jar |-> j]
     ELSE IF x.err # Nil THEN [err |-> x.err, jar |-> j]
     ELSE [err |-> Nil, jar |-> JarSetCookies(j, u, x.cookies)]

ImportCookies(c, file, site) ==
  /\ c \in callers
  /\ AtRest(c)
  /\ LET r == ImportResult(jar, files, file, site) IN
       /\ jar' = r.jar
       /\ call' = [call EXCEPT ![c] = CookieCall(@, "import", file, site, r.err, <<>>),
                               ![TwinOf(c)] = CookieCall(@, "import", file, site, r.err, <<>>)]
  /\ UNCHANGED <<opts, build, callers, options, files>>

\* ------------------------------------------------------- specifications
FetchURLs == {"http://h/a/b", ":bad"}

Next ==
  \/ \E c \in Calls :
       \/ \E u \in FetchURLs : Get(c, u, NoParams)
       \/ \E u \in {"http://h/"} : Post(c, u, TwoSpellings)
       \/ \E u \in {"http://h/"} : CustomRequest(c, "BAD METHOD", u, NoParams)
       \/ DoFail(c)
       \/ DoOK(c)
       \/ Sleep(c)
       \/ ReadBody(c)
       \/ \E f \in Files, s \in Sites : ExportCookies(c, f, s)
       \/ \E f \in Files, s \in Sites : ImportCookies(c, f, s)
  \/ Recreate

Spec == Init /\ [][Next]_vars

\* Either version of fetch compiled in.
NextBuilds ==
  \/ Next
  \/ \E c \in Calls : OldDoFail(c) \/ OldDoOK(c)

SpecBuilds == InitWith({Current, Old}, {"c1"}, OptionLists) /\ [][NextBuilds]_vars

\* A fetch whose dispatches, sleeps and reads all return: the steps of a call
\* under way are taken, while the caller is free never to call again.
NextLive ==
  \E c \in Calls :
    \/ \E u \in FetchURLs : Get(c, u, NoParams)
    \/ DoFail(c)
    \/ DoOK(c)
    \/ Sleep(c)
    \/ ReadBody(c)

Returns == \E c \in Calls : DoFail(c) \/ DoOK(c) \/ Sleep(c) \/ ReadBody(c)

SpecLive ==
  InitWith({Current}, {"c1"}, OptionLists) /\ [][NextLive]_vars /\ WF_vars(Returns)

\* Two callers in fetch on the one client at the same time, their steps
\* interleaved; the server is down or answers with an error page.
ConcOptions == {<<o>> : o \in {x \in UserOptions : x.Tries >= 0}}

NextConc ==
  \E c \in Calls :
    \/ Get(c, "http://h/a/b", NoParams)
    \/ Failing(c, {"dial tcp: connection refused"})
    \/ Answering(c, {r \in Responses : r.StatusCode = 500})
    \/ Sleep(c)
    \/ ReadBody(c)

SpecConc == InitWith({Current}, Calls, ConcOptions) /\ [][NextConc]_vars

\* ================================================================ claims
Ev(c) == call[c].events
FetchReturned(c) == call[c].op = "fetch" /\ call[c].pc = "returned"
\* Every dispatch of the call failed, and there was one.
AllFailed(c) == Dispatches(Ev(c)) # <<>> /\ Failures(Ev(c)) = Dispatches(Ev(c))
LastOf(s) == s[Len(s)]

\* C1: with Tries = N >= 0, a fetch never makes more than N+1 dispatches, and a
\* fetch whose every dispatch failed returns only after exactly N+1 of them,
\* with an error.
C1_ExactlyTriesPlusOne ==
  \A c \in Calls :
    (call[c].op = "fetch" /\ options.Tries >= 0) =>
      /\ Len(Dispatches(Ev(c))) <= options.Tries + 1
      /\ (FetchReturned(c) /\ AllFailed(c)) =>
           (Len(Dispatches(Ev(c))) = options.Tries + 1 /\ call[c].err # Nil)

C1_Witness ==
  \E c \in Calls :
    /\ FetchReturned(c) /\ AllFailed(c)
    /\ options.Tries = 2 /\ Len(Dispatches(Ev(c))) = 3 /\ call[c].err # Nil

\* C2: a fetch whose first k dispatches fail (k <= Tries, or k = 0) and whose
\* next dispatch answers with a body that is read in full returns that body
\* and a nil error, after exactly k + 1 dispatches.
C2_SuccessReturnsBody ==
  \A c \in Calls :
    (FetchReturned(c) /\ Ev(c) # <<>> /\ LastOf(Ev(c)).t = "read" /\ LastOf(Ev(c)).err = Nil) =>
      /\ call[c].data = Bytes(call[c].resp.Body)
      /\ call[c].err = Nil
      /\ Len(Dispatches(Ev(c))) = Len(Failures(Ev(c))) + 1
      /\ LastOf(Dispatches(Ev(c))).err = Nil
      /\ Len(Failures(Ev(c))) = 0 \/ Len(Failures(Ev(c))) <= options.Tries

C2_Witness ==
  \E c \in Calls :
    /\ FetchReturned(c) /\ options.Tries = 2
    /\ Len(Failures(Ev(c))) = 2 /\ Len(Dispatches(Ev(c))) = 3
    /\ call[c].err = Nil /\ call[c].data = Bytes(<<7>>)

\* C3: in a fetch call every sleep comes right after a failed dispatch and
\* lasts the configured Timeout, every dispatch but the first comes right after
\* a sleep, a returned call has slept once less than it dispatched, and with
\* Tries = 0 there is no sleep.
C3_SleepBetweenDispatches ==
  \A c \in Calls :
    LET ev == Ev(c) IN
    /\ \A i \in 1..Len(ev) :
         /\ ev[i].t = "sleep" =>
              (i > 1 /\ ev[i - 1].t = "do" /\ ev[i - 1].err # Nil /\ ev[i].d = options.Timeout)
         /\ (ev[i].t = "do" /\ i > 1) => ev[i - 1].t = "sleep"
    /\ (FetchReturned(c) /\ Dispatches(ev) # <<>>) =>
         (Len(Sleeps(ev)) = Len(Dispatches(ev)) - 1 /\ LastOf(ev).t # "sleep")
    /\ options.Tries = 0 => Sleeps(ev) = <<>>

C3_Witness ==
  \E c \in Calls :
    /\ FetchReturned(c) /\ AllFailed(c) /\ options.Tries = 1
    /\ Len(Sleeps(Ev(c))) = 1 /\ Len(Dispatches(Ev(c))) = 2
    /\ Ev(c)[2].t = "sleep" /\ Ev(c)[2].d = options.Timeout

\* C4: a fetch that returns because its attempts are used up returns the error
\* of its last failed dispatch and a nil body.
C4_LastErrorNoBody ==
  \A c \in Calls :
    (FetchReturned(c) /\ AllFailed(c)) =>
      (call[c].err = LastOf(Failures(Ev(c))).err /\ call[c].data = NilBytes)

C4_Witness ==
  \E c \in Calls :
    /\ FetchReturned(c) /\ AllFailed(c) /\ Len(Failures(Ev(c))) >= 2
    /\ Failures(Ev(c))[1].err # LastOf(Failures(Ev(c))).err
    /\ call[c].err = LastOf(Failures(Ev(c))).err

\* C5: when fetch has returned, by whichever path, no response it got from a
\* dispatch is still open.
C5_ResponsesClosed ==
  \A c \in Calls : FetchReturned(c) => call[c].open = {}

C5_Witness ==
  \E c \in Calls :
    /\ FetchReturned(c) /\ call[c].err = ReadErr
    /\ Len(Failures(Ev(c))) = 1 /\ call[c].open = {}

\* C6: in no version of fetch is an absent response (a failed dispatch) used:
\* no close of its body is registered and its status is not read.
C6_ErrorCheckedFirst ==
  \A c \in Calls : ~call[c].nilDeref

\* C7: a failed read of the body ends the call: the read is the last thing the
\* call does, the call has returned, and it returns the read's error.
C7_ReadErrorReturns ==
  \A c \in Calls :
    \A i \in 1..Len(Ev(c)) :
      Ev(c)[i].t = "read" =>
        /\ i = Len(Ev(c))
        /\ call[c].pc = "returned"
        /\ call[c].err = Ev(c)[i].err

C7_Witness ==
  \E c \in Calls :
    /\ FetchReturned(c) /\ call[c].err = ReadErr /\ options.Tries = 2
    /\ Len(Dispatches(Ev(c))) = 1 /\ Sleeps(Ev(c)) = <<>>

\* The names and values of a list of cookies.
NamesValues(cs) == {<<cs[i].Name, cs[i].Value>> : i \in 1..Len(cs)}

\* A step in which caller c makes a call of ExportCookies or ImportCookies.
CookieStep(c, op) == call'[c] # call[c] /\ call'[c].op = op

\* C8: an ImportCookies(file, site) that succeeds after an ExportCookies(file,
\* site) that succeeded, into the same client with the site's cookies as they
\* were or into a new client, leaves the jar with the names and values of the
\* cookies exported.
C8_RoundTrip ==
  [][\A c \in Calls :
       ( /\ call[c].op = "export" /\ call[c].err = Nil
         /\ CookieStep(c, "import") /\ call'[c].err = Nil
         /\ call'[c].file = call[c].file /\ call'[c].site = call[c].site
         /\ files[call[c].file] = Marshal(call[c].cookies).data
         /\ jar = <<>> \/ JarCookies(jar, Parse(call[c].site)) = call[c].cookies )
       => NamesValues(JarCookies(jar', Parse(call[c].site))) = NamesValues(call[c].cookies)]_vars

\* C9: an ImportCookies that returns an error leaves the jar as it was.
C9_ImportErrorKeepsJar ==
  [][\A c \in Calls :
       (CookieStep(c, "import") /\ call'[c].err # Nil) => jar' = jar]_vars

C9_Witness ==
  \E c \in Calls :
    /\ call[c].op = "import" /\ call[c].file = "/ro/jar.json"
    /\ call[c].site = "http://h/a/b"
    /\ call[c].err = "json: cannot unmarshal number into Go value of type http.Cookie"
    /\ jar = <<>>

\* C10: an ExportCookies to a path that cannot be written, or for a site that
\* does not parse, returns an error (it does return), and writes nothing.
C10_ExportErrors ==
  [][\A c \in Calls :
       (CookieStep(c, "export")
        /\ (call'[c].file \notin Writable \/ Parse(call'[c].site).err # Nil))
       => (call'[c].pc = "returned" /\ call'[c].err # Nil /\ files' = files)]_vars

C10_Witness ==
  \E c \in Calls :
    /\ call[c].op = "export" /\ call[c].file = "/ro/jar.json"
    /\ call[c].site = "http://h/a/b" /\ call[c].cookies # <<>>
    /\ call[c].err = "permission denied"

\* C11: a client made with no options has the options 60 s, 5 s, 5 s, 1 try,
\* not verbose; a client made with one Options value has that value.
C11_CreateWebClientOptions ==
  /\ Len(opts) = 0 =>
       options = [Timeout |-> 60, TlsHandshakeTimeout |-> 5, DialTimeout |-> 5,
                  Tries |-> 1, Verbose |-> FALSE]
  /\ Len(opts) = 1 => options = opts[1]

C11_Witness ==
  /\ Len(opts) = 1 /\ options.Tries = 2 /\ options.Verbose /\ options.Timeout = 2
  /\ \E c \in Calls : call[c].op = "none"

\* C14: no call of Get, Post, CustomRequest, ExportCookies or ImportCookies,
\* whether it succeeds, retries or fails, changes the client's options.
C14_OptionsUnchanged == [][options' = options]_vars

C14_Witness ==
  \E c \in Calls :
    /\ FetchReturned(c) /\ AllFailed(c) /\ Len(Sleeps(Ev(c))) = 2
    /\ options.Tries = 2 /\ options = opts[1]

\* C12: every entry of the headers map is in the request: the value of each is
\* among the values of its canonical key, and a key holds as many values as
\* the map has entries spelling it, so none overwrote another.
C12_HeadersAppended ==
  \A c \in Calls :
    (call[c].op = "fetch" /\ call[c].req # NoReq) =>
      /\ \A e \in call[c].params :
           \E i \in 1..Len(call[c].req.Header[CanonicalKey(e[1])]) :
             call[c].req.Header[CanonicalKey(e[1])][i] = e[2]
      /\ \A k \in HeaderKeys :
           Len(call[c].req.Header[k]) =
             Cardinality({e \in call[c].params : CanonicalKey(e[1]) = k})

C12_Witness ==
  \E c \in Calls :
    /\ FetchReturned(c) /\ call[c].params = {<<KeyLower, "1">>, <<KeyUpper, "2">>}
    /\ call[c].req.Header[KeyUpper] = <<"2", "1">>
    /\ Dispatches(Ev(c)) # <<>>

\* The first dispatch of a call, and any dispatch of it, made in this step.
FirstDispatch(c) == call[c].events = <<>> /\ call'[c].events # <<>>
Dispatch(c) ==
  /\ Len(call'[c].events) = Len(call[c].events) + 1
  /\ call'[c].events[Len(call'[c].events)].t = "do"
\* The cookies of a list that are the last of their name in it.
LastOfName(cs) ==
  {<<cs[i].Name, cs[i].Value>> : i \in {k \in 1..Len(cs) :
     \A m \in (k + 1)..Len(cs) : cs[m].Name # cs[k].Name}}
\* A dispatch of the call answered in this step.
Answered(c) ==
  /\ Len(call'[c].events) = Len(call[c].events) + 1
  /\ LastOf(call'[c].events).t = "do" /\ LastOf(call'[c].events).err = Nil

\* C13: there is one jar. A fetch attaches the cookies the jar holds for its
\* URL, an export returns the cookies the jar holds for its site, and the
\* cookies an import installs or a response sets are held by the jar afterwards.
C13_SharedJar ==
  [][\A c \in Calls :
       /\ FirstDispatch(c) =>
            call'[c].events[1].sent.Cookie = JarCookies(jar, Parse(call[c].req.URL))
       /\ Dispatch(c) =>
            NamesValues(call'[c].events[Len(call'[c].events)].sent.Cookie)
              = NamesValues(JarCookies(jar, Parse(call[c].req.URL)))
       /\ (CookieStep(c, "export") /\ call'[c].err = Nil) =>
            call'[c].cookies = JarCookies(jar, Parse(call'[c].site))
       /\ (CookieStep(c, "import") /\ call'[c].err = Nil) =>
            LastOfName(Unmarshal(files[call'[c].file]).cookies)
              \subseteq NamesValues(JarCookies(jar', Parse(call'[c].site)))
       /\ Answered(c) =>
            LastOfName(call'[c].resp.SetCookie)
              \subseteq NamesValues(JarCookies(jar', Parse(call[c].req.URL)))]_vars

\* A fetch sent, on its first dispatch, a cookie a response set and a cookie an
\* import installed, and an export has written the jar's cookies.
C13_Witness ==
  \E c \in Calls :
    /\ call[c].op = "fetch" /\ Len(Ev(c)) >= 1
    /\ NamesValues(Ev(c)[1].sent.Cookie) = {<<"c", "1">>, <<"c", "2">>}
    /\ files["jar.json"].kind = "array"

\* C15 compares each call with the same call on the twin client.
Observable(st) == [st EXCEPT !.log = <<>>, !.w = DefaultOptions]

\* C15: a client and one differing from it only in Verbose, given the same
\* outcomes, make the same dispatches and sleeps and return the same; the one
\* that is not verbose prints nothing.
C15_VerboseOnlyLogs ==
  \A c \in Calls :
    /\ Observable(call[c]) = Observable(call[TwinOf(c)])
    /\ call[c].op = "fetch" => call[c].w.Verbose # call[TwinOf(c)].w.Verbose
    /\ \A x \in {c, TwinOf(c)} : ~call[x].w.Verbose => call[x].log = <<>>

C15_Witness ==
  \E c \in Calls :
    /\ FetchReturned(c) /\ Len(Sleeps(Ev(c))) = 2 /\ call[c].err = Nil
    /\ call[c].w.Verbose /\ Len(call[c].log) = 4
    /\ call[TwinOf(c)].log = <<>> /\ call[TwinOf(c)].events = call[c].events

\* C17 (as stated): every dispatch of a call sends the same request: the
\* method, the URL and the headers of a retry are those of the first attempt.
C17_SameRequestEveryAttempt ==
  \A c \in Calls :
    call[c].op = "fetch" =>
      \A i \in 1..Len(Dispatches(Ev(c))) :
        Dispatches(Ev(c))[i].sent = Dispatches(Ev(c))[1].sent

\* C18: a dispatch that was answered, whatever the status, is the last of its
\* call and no sleep follows it; when the body is read in full the call
\* returns it with no error.
C18_AnyStatusEndsTheCall ==
  \A c \in Calls :
    call[c].op = "fetch" =>
      /\ \A i \in 1..Len(Ev(c)) :
           (Ev(c)[i].t = "do" /\ Ev(c)[i].err = Nil) =>
             \A k \in (i + 1)..Len(Ev(c)) : Ev(c)[k].t = "read"
      /\ (call[c].pc = "returned" /\ Ev(c) # <<>> /\ LastOf(Ev(c)).t = "read"
            /\ LastOf(Ev(c)).err = Nil) =>
           (call[c].data = Bytes(call[c].resp.Body) /\ call[c].err = Nil)

C18_Witness ==
  \E c \in Calls :
    /\ FetchReturned(c) /\ call[c].w.Tries = 2 /\ call[c].resp.StatusCode = 500
    /\ Len(Dispatches(Ev(c))) = 1 /\ Sleeps(Ev(c)) = <<>>
    /\ call[c].err = Nil /\ call[c].data = Bytes(<<>>)

\* C20: a fetch whose request cannot be built returns the error of building
\* it and no body, having made no dispatch and no sleep, and leaves the jar
\* as it was.
C20_BuildErrorReturns ==
  [][\A c \in Calls :
       (call'[c].op = "fetch" /\ NewRequest(call'[c].method, call'[c].url).err # Nil) =>
         /\ call'[c].pc = "returned"
         /\ call'[c].err = NewRequest(call'[c].method, call'[c].url).err
         /\ call'[c].data = NilBytes
         /\ call'[c].events = <<>>
         /\ call'[c] # call[c] => jar' = jar]_vars

C20_Witness ==
  \E c \in Calls :
    /\ FetchReturned(c) /\ call[c].url = ":bad" /\ call[c].method = "GET"
    /\ call[c].err = "missing protocol scheme" /\ call[c].data = NilBytes
    /\ jar # <<>>

\* The dispatches a call may make: one, and one more for each retry allowed.
Budget(c) == (IF call[c].w.Tries > 0 THEN call[c].w.Tries ELSE 0) + 1

\* C16 (as stated): every fetch call that has returned made at least one
\* dispatch and at most max(Tries, 0) + 1.
C16_EveryCallDispatches ==
  \A c \in Calls :
    FetchReturned(c) =>
      (Len(Dispatches(Ev(c))) >= 1 /\ Len(Dispatches(Ev(c))) <= Budget(c))

\* C16 (amended): whatever Tries is, negative too, when every dispatch, sleep
\* and read returns, a fetch call eventually returns; a call whose request was
\* built has then made at least one and at most max(Tries, 0) + 1 dispatches,
\* and it returns the error of a dispatch only when it has made them all.
C16_BuiltCallReturns ==
  /\ [](\A c \in Calls :
          call[c].op = "fetch" =>
            /\ Len(Dispatches(Ev(c))) <= Budget(c)
            /\ (call[c].pc = "returned" /\ call[c].req # NoReq) =>
                 Len(Dispatches(Ev(c))) >= 1
            /\ (call[c].pc = "returned" /\ AllFailed(c)) =>
                 Len(Dispatches(Ev(c))) = Budget(c))
  /\ \A c \in Calls : (call[c].op = "fetch" /\ call[c].pc # "returned")
                        ~> (call[c].pc = "returned")

C16_Witness ==
  \E c \in Calls :
    /\ FetchReturned(c) /\ call[c].w.Tries = -1 /\ call[c].req # NoReq
    /\ AllFailed(c) /\ Len(Dispatches(Ev(c))) = 1 /\ Sleeps(Ev(c)) = <<>>

\* C19: with calls of fetch interleaved on one client, each counts its own
\* retries: it makes at most Tries+1 dispatches, exactly Tries+1 when all of
\* them fail, and its counter is the number of its own sleeps.
C19_CounterPerCall ==
  \A c \in Calls :
    call[c].op = "fetch" =>
      /\ Len(Dispatches(Ev(c))) <= call[c].w.Tries + 1
      /\ (call[c].pc = "returned" /\ AllFailed(c)) =>
           Len(Dispatches(Ev(c))) = call[c].w.Tries + 1
      /\ call[c].tryCount = Len(Sleeps(Ev(c)))

\* One call has failed for good after its three dispatches while the other,
\* begun meanwhile, is asleep after its first.
C19_Witness ==
  /\ FetchReturned("c1") /\ AllFailed("c1") /\ Len(Dispatches(Ev("c1"))) = 3
  /\ call["c2"].op = "fetch" /\ call["c2"].pc = "sleep"
  /\ Len(Dispatches(Ev("c2"))) = 1 /\ call["c2"].tryCount = 0

=============================================================================
